---- MODULE Spec2Model ----
(***************************************************************************)
(* vuex-tstore: the mutation proxies (wrapMutations) and the getter        *)
(* proxies (wrapGetters) of src/src/mutations.ts, over a store that        *)
(* offers commit, subscribe and a live getters registry.                   *)
(*                                                                         *)
(* Spec   : wrapMutations, its accessors, listen()/disposers and the       *)
(*          synchronous, reentrant delivery of commits to subscribers.     *)
(* SpecG  : both constructors, property reads and writes on the wrapped    *)
(*          getters, external updates of store.getters.                    *)
(***************************************************************************)
EXTENDS Integers, Sequences, FiniteSets, TLC

VARIABLES
  namespace,    \* the namespace argument of the wrap calls
  mutations,    \* the handler map given to wrapMutations: Seq of [key, handler]
  wrapped,      \* what wrapMutations produced: [status, props]
  subscribers,  \* store._subscribers: the functions store.subscribe() registered
  listens,      \* every listen()/subscribe() call so far: [name, fn, disposed]
  stack,        \* the commits in progress, innermost last
  lastCall,     \* the call just made: of an accessor, the passthrough,
                \* store.commit or a disposer
  issued,       \* the store.commit calls that call made
  getters,      \* the handler map given to wrapGetters
  wrappedG,     \* what wrapGetters produced: [status, props]
  storeGetters, \* store.getters: qualified key -> current value
  lastAccess    \* the latest read or write of a wrapped getter property

storeVars == <<subscribers, listens, stack, lastCall, issued>>
mutVars   == <<mutations, wrapped>>
getVars   == <<getters, wrappedG, storeGetters, lastAccess>>
vars      == <<namespace, mutations, wrapped, subscribers, listens, stack,
               lastCall, issued, getters, wrappedG, storeGetters,
               lastAccess>>

(***************************************************************************)
(* Bounds and input sets.                                                  *)
(***************************************************************************)
MaxSubs    == 2     \* listen() and subscribe() calls in one behaviour
MaxDepth   == 2     \* commits nested in one another

Payloads   == {"p1", "p2"}
Callbacks  == {"L1", "L2"}
Values     == {"v1", "v2"}
Undefined  == "undefined"

\* A function value: only its declared name matters here ("" for an
\* anonymous function, as Function.prototype.name gives).
Fn(name) == [name |-> name]
Entry(key, name) == [key |-> key, handler |-> Fn(name)]

\* Handler maps, as Object.entries lists them (keys are unique in an
\* object): handlers named as their keys, a handler of another name, a
\* handler without a name, two handlers of one name.
HandlerMaps ==
  { << Entry("add", "add") >>,
    << Entry("add", "add"), Entry("del", "del") >>,
    << Entry("add", "put") >>,
    << Entry("add", "") >> }

SharedNameMap == << Entry("add", "put"), Entry("del", "put") >>

Identifiers == {"add", "del", "put"}

\* The wrap calls made: the one-handler map without a namespace, the
\* others under one.
Setups ==
  { <<IF Len(map) = 1 /\ map[1].handler.name = map[1].key THEN "" ELSE "cart",
      map>> : map \in HandlerMaps }

(***************************************************************************)
(* ./util qualifyKey                                                       *)
(***************************************************************************)
qualify(identifier, ns) ==
  IF ns = "" THEN identifier ELSE ns \o "/" \o identifier

HasIdentity(handler) == handler.name # ""

\* qualifyKey(handler, namespace): the key of the handler's own name.
qualifyKey(handler, ns) == qualify(handler.name, ns)


(***************************************************************************)
(* wrapMutations                                                           *)
(***************************************************************************)
OptRoot   == "{root:true}"
OptNone   == "undefined"
OptSilent == "{silent:true}"

NoProps == [k \in {} |-> [mutationKey |-> ""]]
Thrown(error) == [status |-> error, props |-> NoProps]

\* The accessor `deferred` of one entry: a closure over mutationKey.
Accessor(mutationKey) == [mutationKey |-> mutationKey]

\* One step of the reducer: qualifyKey(mutation, namespace), then
\* Object.defineProperty(commit, key, {get() { return deferred }}).
reducer(commit, entry, ns) ==
  IF ~HasIdentity(entry.handler)
  THEN Thrown("InvalidHandlerIdentity")
  ELSE [status |-> "ok",
        props  |-> (entry.key :> Accessor(qualifyKey(entry.handler, ns)))
                   @@ commit.props]

RECURSIVE reduce(_, _, _)
reduce(entries, commit, ns) ==
  IF entries = <<>> \/ commit.status # "ok"
  THEN commit
  ELSE reduce(Tail(entries), reducer(commit, Head(entries), ns), ns)

wrapMutations(ns, map) == reduce(map, [status |-> "ok", props |-> NoProps], ns)

(***************************************************************************)
(* The store: commit delivers the mutation to a copy of the subscriber     *)
(* list, synchronously; subscribe registers a function once and returns    *)
(* the disposer that removes it.                                           *)
(***************************************************************************)
Top == stack[Len(stack)]

\* User code is running: at top level, or inside a subscriber's callback.
UserRunning == IF stack = <<>> THEN TRUE ELSE Top.running

\* No commit is being delivered.  Subscriptions are made and disposed
\* between commits: what a change of the subscriber list does to a delivery
\* in progress is the store's business, and no accessor depends on it.
\* A callback that commits does so through an accessor of the wrapper.
Idle == stack = <<>>

LiveCalls == { i \in DOMAIN listens : ~listens[i].disposed }

\* One store.commit call in progress.  call, seen and live are bookkeeping:
\* the call that made the commit, the number of listen() calls made before
\* it started, and those of them not yet disposed.
Frame(mutation, options) ==
  [mutation |-> mutation,
   options  |-> options,
   pending  |-> subscribers,
   running  |-> FALSE,
   invoked  |-> <<>>,
   call     |-> lastCall',
   seen     |-> Len(listens),
   live     |-> LiveCalls]

StoreCommit(type, payload, options) ==
  /\ Len(stack) < MaxDepth
  /\ issued' = <<[type |-> type, payload |-> payload, options |-> options]>>
  /\ stack' = Append(stack,
                     Frame([type |-> type, payload |-> payload], options))
  /\ UNCHANGED <<subscribers, listens>>

RECURSIVE Without(_, _)
Without(seq, x) ==
  IF seq = <<>> THEN <<>>
  ELSE IF Head(seq) = x THEN Tail(seq)
  ELSE <<Head(seq)>> \o Without(Tail(seq), x)

InSeq(seq, x) == \E i \in DOMAIN seq : seq[i] = x

StoreSubscribe(fn) == IF InSeq(subscribers, fn) THEN subscribers
                      ELSE Append(subscribers, fn)

StoreUnsubscribe(fn) == Without(subscribers, fn)

(***************************************************************************)
(* The accessors                                                           *)
(***************************************************************************)
\* A passthrough that dispatches as the accessors do: it qualifies the key
\* and forces the root option.
commitRooted(type, payload, options) ==
  StoreCommit(qualify(type, namespace), payload, OptRoot)

\* The initial value of the reducer: the passthrough committer.
commit(type, payload, options) == StoreCommit(type, payload, options)

\* A deferred that refuses to commit while a commit is being delivered.
deferredUnlessDispatching(accessor, payload) ==
  IF stack = <<>>
  THEN commit(accessor.mutationKey, payload, OptRoot)
  ELSE issued' = <<>> /\ UNCHANGED <<stack, subscribers, listens>>

\* deferred(payload)
deferred(accessor, payload) == commit(accessor.mutationKey, payload, OptRoot)

\* A filter that is one function for each key and handler, whoever asks.
filterShared(accessor, handler, id) ==
  [kind |-> "filter", id |-> 0, key |-> accessor.mutationKey,
   handler |-> handler]

\* The function deferred.listen hands to store.subscribe: a new closure on
\* every call (id tells two closures of the same key and handler apart).
filter(accessor, handler, id) ==
  [kind |-> "filter", id |-> id, key |-> accessor.mutationKey,
   handler |-> handler]

\* A function subscribed on the store directly.
raw(handler) == [kind |-> "raw", id |-> 0, key |-> "", handler |-> handler]

\* A filter that hands the handler the mutation's type.
filterCallPassesType(fn, mutation) ==
  IF mutation.type = fn.key
  THEN << [fn |-> fn, arg |-> mutation.type] >>
  ELSE << >>

\* A filter that does not look at the type.
filterCallUnfiltered(fn, mutation) ==
  << [fn |-> fn, arg |-> mutation.payload] >>

\* The filter applied to a committed mutation: the handler calls it makes.
filterCall(fn, mutation) ==
  IF mutation.type = fn.key
  THEN << [fn |-> fn, arg |-> mutation.payload] >>
  ELSE << >>

subscriberCall(fn, mutation) ==
  IF fn.kind = "raw"
  THEN << [fn |-> fn, arg |-> mutation.payload] >>
  ELSE filterCall(fn, mutation)

(***************************************************************************)
(* Actions                                                                 *)
(***************************************************************************)
\* The types committed through the passthrough and on the store directly:
\* the keys of the accessors, and a key of the namespace none may have.
Types == { wrapped.props[k].mutationKey : k \in DOMAIN wrapped.props }
         \cup { qualify("del", namespace) }

\* The arguments given to the passthrough committer.
PassthroughArgs ==
  { <<type, "p1", OptNone>> : type \in Types }
  \cup { <<type, "p2", OptSilent>> : type \in Types }

NoCall == [origin |-> "none", name |-> "", type |-> "", payload |-> "",
           options |-> "", depth |-> 0]

NoteNoCall == lastCall' = NoCall /\ issued' = <<>>

WrapMutations ==
  /\ wrapped.status = "none"
  /\ wrapped' = wrapMutations(namespace, mutations)
  /\ UNCHANGED <<namespace, mutations, storeVars, getVars>>

Wrapped == wrapped.status # "none"

\* wrapper.<name>(payload)
AccessorCall(name, payload) ==
  /\ UserRunning
  /\ wrapped.status = "ok"
  /\ name \in DOMAIN wrapped.props
  /\ lastCall' = [origin |-> "accessor", name |-> name, type |-> "",
                  payload |-> payload, options |-> "", depth |-> Len(stack)]
  /\ deferred(wrapped.props[name], payload)
  /\ UNCHANGED <<namespace, mutVars, getVars>>

\* wrapper(type, payload, options)
PassthroughCall(type, payload, options) ==
  /\ Idle
  /\ wrapped.status = "ok"
  /\ lastCall' = [origin |-> "passthrough", name |-> "", type |-> type,
                  payload |-> payload, options |-> options,
                  depth |-> Len(stack)]
  /\ commit(type, payload, options)
  /\ UNCHANGED <<namespace, mutVars, getVars>>

\* store.commit(type, payload) by other code
DirectCommit(type, payload) ==
  /\ Idle
  /\ Wrapped
  /\ lastCall' = [origin |-> "direct", name |-> "", type |-> type,
                  payload |-> payload, options |-> OptNone,
                  depth |-> Len(stack)]
  /\ StoreCommit(type, payload, OptNone)
  /\ UNCHANGED <<namespace, mutVars, getVars>>

\* wrapper.<name>.listen(handler)
Listen(name, handler) ==
  /\ Idle
  /\ wrapped.status = "ok"
  /\ name \in DOMAIN wrapped.props
  /\ Len(listens) < MaxSubs
  /\ LET fn == filter(wrapped.props[name], handler, Len(listens) + 1) IN
       /\ subscribers' = StoreSubscribe(fn)
       /\ listens' = Append(listens,
                            [name |-> name, fn |-> fn, disposed |-> FALSE])
  /\ NoteNoCall
  /\ UNCHANGED <<namespace, mutVars, getVars, stack>>

\* store.subscribe(handler) by other code
Subscribe(handler) ==
  /\ Idle
  /\ Wrapped
  /\ Len(listens) < MaxSubs
  /\ \A i \in DOMAIN listens : listens[i].fn # raw(handler)
  /\ subscribers' = StoreSubscribe(raw(handler))
  /\ listens' = Append(listens,
                       [name |-> "", fn |-> raw(handler), disposed |-> FALSE])
  /\ NoteNoCall
  /\ UNCHANGED <<namespace, mutVars, getVars, stack>>

\* A call of the disposer that listens[i] returned, the first or a later one.
Dispose(i) ==
  /\ Idle
  /\ i \in DOMAIN listens
  /\ subscribers' = StoreUnsubscribe(listens[i].fn)
  /\ listens' = [listens EXCEPT ![i].disposed = TRUE]
  /\ lastCall' = [origin |-> "disposer", index |-> i,
                  again |-> listens[i].disposed]
  /\ issued' = <<>>
  /\ UNCHANGED <<namespace, mutVars, getVars, stack>>

\* The commit in progress calls its next subscriber.
Deliver ==
  /\ stack # <<>>
  /\ ~Top.running
  /\ Top.pending # <<>>
  /\ LET calls == subscriberCall(Head(Top.pending), Top.mutation) IN
       stack' = [stack EXCEPT ![Len(stack)] =
                   [@ EXCEPT !.pending = Tail(@),
                             !.running = calls # <<>>,
                             !.invoked = @ \o calls]]
  /\ NoteNoCall
  /\ UNCHANGED <<namespace, mutVars, getVars, subscribers, listens>>

\* The running callback returns.
HandlerReturn ==
  /\ stack # <<>>
  /\ Top.running
  /\ stack' = [stack EXCEPT ![Len(stack)].running = FALSE]
  /\ NoteNoCall
  /\ UNCHANGED <<namespace, mutVars, getVars, subscribers, listens>>

\* store.commit returns to its caller.
CommitReturn ==
  /\ stack # <<>>
  /\ ~Top.running
  /\ Top.pending = <<>>
  /\ stack' = SubSeq(stack, 1, Len(stack) - 1)
  /\ NoteNoCall
  /\ UNCHANGED <<namespace, mutVars, getVars, subscribers, listens>>

(***************************************************************************)
(* wrapGetters                                                             *)
(***************************************************************************)
GetterMaps ==
  { << Entry("total", "total") >>,
    << Entry("total", "total"), Entry("count", "count") >>,
    << Entry("total", "sum") >>,
    << Entry("total", "") >> }

GetterIdentifiers == {"total", "count", "sum"}

GetterKeys == { qualify(id, namespace) : id \in GetterIdentifiers }

NoGetters == [k \in {} |-> [getter |-> Fn(""), namespace |-> ""]]

\* The property wrapGetters defines for one entry: a getter closed over
\* the handler and the namespace, and no setter.
RECURSIVE defineProperties(_, _, _)
defineProperties(entries, result, ns) ==
  IF entries = <<>> THEN result
  ELSE defineProperties(Tail(entries),
         (Head(entries).key :> [getter |-> Head(entries).handler,
                                namespace |-> ns]) @@ result,
         ns)

wrapGetters(map, ns) ==
  [status |-> "ok", props |-> defineProperties(map, NoGetters, ns)]

\* store.getters[key]
Lookup(key) ==
  IF key \in DOMAIN storeGetters THEN storeGetters[key] ELSE Undefined

\* get() of a wrapped property: what the read gives.
get(property) ==
  IF ~HasIdentity(property.getter)
  THEN [outcome |-> "throws", value |-> "InvalidHandlerIdentity"]
  ELSE [outcome |-> "value",
        value |-> Lookup(qualifyKey(property.getter, property.namespace))]

\* An assignment to a property that has a getter and no setter: a
\* TypeError in strict-mode code, ignored in sloppy-mode code.
set(property, value, strict) ==
  IF strict THEN [outcome |-> "throws", value |-> "TypeError"]
  ELSE [outcome |-> "ignored", value |-> Undefined]

NoAccess == [op |-> "none", key |-> "", strict |-> FALSE, outcome |-> "",
             value |-> "", before |-> <<>>]

WrapGetters ==
  /\ wrappedG.status = "none"
  /\ wrappedG' = wrapGetters(getters, namespace)
  /\ UNCHANGED <<namespace, mutVars, storeVars, getters, storeGetters,
                 lastAccess>>

\* A read of wrapped.<key>
ReadProperty(key) ==
  /\ wrappedG.status = "ok"
  /\ key \in DOMAIN wrappedG.props
  /\ lastAccess' = [op |-> "read", key |-> key, strict |-> FALSE,
                    before |-> storeGetters]
                   @@ get(wrappedG.props[key])
  /\ UNCHANGED <<namespace, mutVars, storeVars, getters, wrappedG,
                 storeGetters>>

\* wrapped.<key> = value
WriteProperty(key, value, strict) ==
  /\ wrappedG.status = "ok"
  /\ key \in DOMAIN wrappedG.props
  /\ lastAccess' = [op |-> "write", key |-> key, strict |-> strict,
                    before |-> storeGetters]
                   @@ set(wrappedG.props[key], value, strict)
  /\ UNCHANGED <<namespace, mutVars, storeVars, getters, wrappedG,
                 storeGetters>>

\* The store recomputes a getter, registers or unregisters one.
UpdateRegistry(key, value) ==
  /\ Lookup(key) # value
  /\ storeGetters' =
       IF value = Undefined
       THEN [k \in DOMAIN storeGetters \ {key} |-> storeGetters[k]]
       ELSE (key :> value) @@ storeGetters
  /\ lastAccess' = NoAccess
  /\ UNCHANGED <<namespace, mutVars, storeVars, getters, wrappedG>>

(***************************************************************************)
(* Specifications                                                          *)
(***************************************************************************)
InitStore ==
  /\ wrapped = [status |-> "none", props |-> NoProps]
  /\ subscribers = <<>>
  /\ listens = <<>>
  /\ stack = <<>>
  /\ lastCall = NoCall
  /\ issued = <<>>
  /\ wrappedG = [status |-> "none", props |-> NoGetters]
  /\ storeGetters = <<>>
  /\ lastAccess = NoAccess

Init ==
  /\ \E setup \in Setups : namespace = setup[1] /\ mutations = setup[2]
  /\ getters = <<>>
  /\ InitStore

Next ==
  \/ WrapMutations
  \/ \E name \in Identifiers, payload \in Payloads : AccessorCall(name, payload)
  \/ \E args \in PassthroughArgs : PassthroughCall(args[1], args[2], args[3])
  \/ \E type \in Types : DirectCommit(type, "p2")
  \/ \E name \in Identifiers, handler \in Callbacks : Listen(name, handler)
  \/ Subscribe("L2")
  \/ \E i \in 1..MaxSubs : Dispose(i)
  \/ Deliver
  \/ HandlerReturn
  \/ CommitReturn

Spec == Init /\ [][Next]_vars

InitG ==
  /\ namespace \in {"", "cart"}
  /\ mutations \in { << Entry("add", "add"), Entry("del", "del") >>,
                     << Entry("add", "add"), Entry("del", "") >>,
                     SharedNameMap }
  /\ getters \in GetterMaps
  /\ InitStore

NextG ==
  \/ WrapMutations
  \/ WrapGetters
  \/ \E key \in GetterIdentifiers : ReadProperty(key)
  \/ \E key \in GetterIdentifiers, value \in Values, strict \in BOOLEAN :
       WriteProperty(key, value, strict)
  \/ \E key \in GetterKeys, value \in Values \cup {Undefined} :
       UpdateRegistry(key, value)

SpecG == InitG /\ [][NextG]_vars

(***************************************************************************)
(* Properties of Spec                                                      *)
(***************************************************************************)
Frames == { stack[i] : i \in DOMAIN stack }

\* store.commit has called every subscriber of the commit and none is running.
Complete(f) == f.pending = <<>> /\ ~f.running

\* The calls of subscriber fn (of callback handler) made for commit f.
CallsOf(f, fn) == { k \in DOMAIN f.invoked : f.invoked[k].fn = fn }
CallsOfHandler(f, handler) ==
  { k \in DOMAIN f.invoked : f.invoked[k].fn.handler = handler }

\* The listen() calls made on accessor `name`.
ListensOn(name) ==
  { i \in DOMAIN listens :
      listens[i].fn.kind = "filter" /\ listens[i].name = name }

\* Listen call i was in place when commit f started, and is for f's type.
Expects(f, i) ==
  /\ i \in f.live
  /\ listens[i].fn.kind = "filter" => listens[i].fn.key = f.mutation.type

OnceWithPayload(f, fn) ==
  /\ Cardinality(CallsOf(f, fn)) = 1
  /\ \A k \in CallsOf(f, fn) : f.invoked[k].arg = f.mutation.payload

MapKeys == { mutations[i].key : i \in DOMAIN mutations }

\* C1: a call of the accessor exposed as <name> issues exactly one
\* store.commit, with key qualify(name, namespace), the payload given and
\* the options {root: true}, whatever the declared name of the handler.
C1_AccessorCommitsItsIdentifier ==
  lastCall.origin = "accessor" =>
    issued = << [type    |-> qualify(lastCall.name, namespace),
                 payload |-> lastCall.payload,
                 options |-> OptRoot] >>

\* C2, as stated: once listen(L) was called on accessor a, a call a(payload)
\* invokes the callback L exactly once, with the payload; once the disposer
\* of that listen call was called, no later a(payload) invokes L at all.
C2_CallbackOnceThenNever ==
  \A f \in Frames :
    (Complete(f) /\ f.call.origin = "accessor") =>
      \A i \in ListensOn(f.call.name) :
        LET calls == CallsOfHandler(f, listens[i].fn.handler) IN
          /\ i \in f.live =>
               /\ Cardinality(calls) = 1
               /\ \A k \in calls : f.invoked[k].arg = f.call.payload
          /\ (i <= f.seen /\ i \notin f.live) => calls = {}

\* C2, amended: a call a(payload) invokes L exactly once, with the payload,
\* for each listen call on a whose disposer has not been called; for a
\* listen call whose disposer was called before a(payload), it does not
\* invoke L.  (The same callback registered by another listen call, or on
\* the store directly, is invoked for that registration.)
C2_ListenCallOnceThenNever ==
  \A f \in Frames :
    (Complete(f) /\ f.call.origin = "accessor") =>
      \A i \in ListensOn(f.call.name) :
        LET calls == CallsOf(f, listens[i].fn) IN
          /\ i \in f.live =>
               /\ Cardinality(calls) = 1
               /\ \A k \in calls : f.invoked[k].arg = f.call.payload
          /\ (i <= f.seen /\ i \notin f.live) => calls = {}

\* An accessor call has returned its commit with one listener on the
\* accessor invoked and another, disposed before the call, not invoked.
C2_Witness ==
  \E f \in Frames :
    /\ Complete(f) /\ f.call.origin = "accessor"
    /\ \E i, j \in ListensOn(f.call.name) :
         /\ i \in f.live /\ CallsOf(f, listens[i].fn) # {}
         /\ j <= f.seen /\ j \notin f.live
         /\ listens[i].fn.handler = listens[j].fn.handler

\* C3: a listener registered by listen() on the accessor of key K is invoked
\* with the committed payload for every commit of type K, whoever made it
\* (accessor, passthrough, store.commit), and for no commit of another type.
C3_ListenerFilter ==
  \A f \in Frames :
    /\ \A k \in DOMAIN f.invoked :
         f.invoked[k].fn.kind = "filter" =>
           /\ f.invoked[k].fn.key = f.mutation.type
           /\ f.invoked[k].arg = f.mutation.payload
    /\ Complete(f) =>
         \A i \in f.live :
           (listens[i].fn.kind = "filter"
             /\ listens[i].fn.key = f.mutation.type)
           => CallsOf(f, listens[i].fn) # {}

\* A commit made on the store directly has been delivered: the listener
\* of its key was invoked, the listener of another key was not.
C3_Witness ==
  \E f \in Frames :
    /\ f.call.origin = "direct" /\ Complete(f)
    /\ \E i, j \in f.live :
         /\ listens[i].fn.kind = "filter" /\ listens[j].fn.kind = "filter"
         /\ listens[i].fn.key = f.mutation.type
         /\ listens[j].fn.key # f.mutation.type
         /\ CallsOf(f, listens[i].fn) # {}
         /\ CallsOf(f, listens[j].fn) = {}

\* C4: a disposer removes the subscription of its own listen() call and no
\* other: whatever disposers were called, and however often, a subscription
\* is registered exactly as long as its own disposer was not called, and a
\* registered one is invoked on its commits.
C4_DisposerRemovesOnlyItsOwn ==
  /\ \A i \in DOMAIN listens :
       (~listens[i].disposed) <=> InSeq(subscribers, listens[i].fn)
  /\ Len(subscribers) = Cardinality(LiveCalls)
  /\ \A f \in Frames :
       Complete(f) =>
         \A i \in f.live : Expects(f, i) => OnceWithPayload(f, listens[i].fn)

\* The first disposer has just been called a second time; the same
\* callback, registered a second time on the same accessor, is still
\* subscribed.
C4_Witness ==
  /\ lastCall.origin = "disposer" /\ lastCall.index = 1 /\ lastCall.again
  /\ Len(listens) = 2
  /\ ~listens[2].disposed
  /\ listens[1].name = listens[2].name
  /\ listens[1].fn.kind = "filter"
  /\ listens[1].fn.handler = listens[2].fn.handler
  /\ subscribers = << listens[2].fn >>

\* C5: wrapMutations fails with DuplicateKey when two handlers of the map
\* qualify to the same key, so no two accessors of a wrapper it returns
\* dispatch to the same key.
C5_DuplicateKeyRejected ==
  /\ wrapped.status = "ok" =>
       \A k1, k2 \in DOMAIN wrapped.props :
         k1 # k2 => wrapped.props[k1].mutationKey # wrapped.props[k2].mutationKey
  /\ (/\ wrapped.status # "none"
      /\ \E i, j \in DOMAIN mutations :
           /\ i # j
           /\ HasIdentity(mutations[i].handler)
           /\ HasIdentity(mutations[j].handler)
           /\ qualifyKey(mutations[i].handler, namespace)
                = qualifyKey(mutations[j].handler, namespace))
     => wrapped.status = "DuplicateKey"

\* C9: the wrapper called directly passes key, payload and options to one
\* store.commit call unchanged, and has one accessor for each identifier of
\* the handler map.
C9_Passthrough ==
  /\ lastCall.origin = "passthrough" =>
       issued = << [type    |-> lastCall.type,
                    payload |-> lastCall.payload,
                    options |-> lastCall.options] >>
  /\ wrapped.status = "ok" => DOMAIN wrapped.props = MapKeys

\* A passthrough call with options of its own, under a namespace, on a
\* wrapper of two accessors.
C9_Witness ==
  /\ lastCall.origin = "passthrough"
  /\ lastCall.options = OptSilent
  /\ namespace # ""
  /\ Cardinality(DOMAIN wrapped.props) = 2
  /\ Len(issued) = 1

\* C10: a commit an accessor makes inside a listener is dispatched at once,
\* on top of the commit being delivered, and returns before it; each of the
\* two commits invokes each of its listeners exactly once.
C10_ReentrantDispatch ==
  /\ (lastCall.origin = "accessor" /\ lastCall.depth > 0) =>
       /\ Len(issued) = 1
       /\ Len(stack) = lastCall.depth + 1
       /\ Top.mutation = [type |-> issued[1].type, payload |-> lastCall.payload]
       /\ Top.pending = subscribers
  /\ \A d \in DOMAIN stack :
       d > 1 => /\ stack[d - 1].running
                /\ stack[d - 1].invoked # <<>>
                /\ stack[d].call.depth = d - 1
  /\ \A f \in Frames :
       Complete(f) =>
         \A i \in f.live : Expects(f, i) => OnceWithPayload(f, listens[i].fn)

\* Inside a listener of one key an accessor committed another key, whose
\* listener has run; the outer commit has not returned yet.
C10_Witness ==
  /\ Len(stack) = 2
  /\ stack[1].running /\ stack[1].invoked # <<>>
  /\ stack[1].invoked[Len(stack[1].invoked)].fn.kind = "filter"
  /\ stack[2].call.origin = "accessor"
  /\ stack[2].mutation.type # stack[1].mutation.type
  /\ Complete(stack[2])
  /\ \E i \in stack[2].live :
       /\ listens[i].fn.kind = "filter"
       /\ CallsOf(stack[2], listens[i].fn) # {}

(***************************************************************************)
(* Properties of SpecG                                                     *)
(***************************************************************************)
\* C6: a read of the wrapped property <name> gives what store.getters maps
\* qualify(name, namespace) to at the moment of the read, undefined when
\* the key is absent, and never raises.
C6_LiveGetterRead ==
  lastAccess.op = "read" =>
    /\ lastAccess.outcome = "value"
    /\ lastAccess.value = Lookup(qualify(lastAccess.key, namespace))

\* C7: a write to a wrapped getter property fails with the read-only error
\* (the TypeError of an assignment to a property without a setter) and
\* changes neither the property nor the registry.
C7_WriteFails ==
  lastAccess.op = "write" =>
    /\ lastAccess.outcome = "throws"
    /\ lastAccess.value = "TypeError"
    /\ storeGetters = lastAccess.before
    /\ wrappedG = wrapGetters(getters, namespace)

\* C8: a handler without a name makes the wrap call itself fail with
\* InvalidHandlerIdentity, in wrapMutations and in wrapGetters alike; no
\* read of a property raises it later.
C8_IdentityErrorsAreEager ==
  /\ (wrapped.status # "none"
       /\ \E i \in DOMAIN mutations : ~HasIdentity(mutations[i].handler))
     => wrapped.status = "InvalidHandlerIdentity"
  /\ (wrappedG.status # "none"
       /\ \E i \in DOMAIN getters : ~HasIdentity(getters[i].handler))
     => wrappedG.status = "InvalidHandlerIdentity"
  /\ lastAccess.op = "read" =>
       ~(lastAccess.outcome = "throws"
          /\ lastAccess.value = "InvalidHandlerIdentity")

====
